---- MODULE Spec2Model ----
(***************************************************************************)
(* Model of the Shiki post-build highlighter (scripts/highlight.ts, held   *)
(* in src/scripts/build-css.ts, lines 31-130).                             *)
(*                                                                         *)
(* Text is modelled character by character: a string is a sequence of      *)
(* one-character strings, so that the regular expression scan, the entity  *)
(* decoding and String.prototype.replace are computed as the code computes *)
(* them.  The file system is a small directory tree whose .html files hold *)
(* documents assembled from a few segments; the highlighting engine is a   *)
(* black box whose answer for a given (lang, code) is chosen on first use  *)
(* and then kept (a deterministic engine).                                 *)
(***************************************************************************)
EXTENDS Integers, Sequences, FiniteSets, TLC

(***************************************************************************)
(* Bounds                                                                  *)
(***************************************************************************)
\* total number of segments over all documents of the tree
MaxSegs == 2
\* number of successive runs of the script over the same tree
MaxRuns == 2
\* number of pieces of a payload given to the entity decoding alone
MaxPieces == 3
\* length of the longest document of a tree the script is run over again
MaxDocLen == 125
\* total number of segments of the trees the termination of a run is
\* checked on
MaxLiveSegs == 1
\* number of different stylesheets the CSS build may read or produce
MaxSheets == 3

(***************************************************************************)
(* Strings                                                                 *)
(***************************************************************************)
Min(S) == CHOOSE x \in S : \A y \in S : x <= y

\* s has p as a substring starting at position i (1-based)
StartsWithAt(s, i, p) ==
  /\ i >= 1
  /\ i + Len(p) - 1 <= Len(s)
  /\ \A k \in 1..Len(p) : s[i + k - 1] = p[k]

\* String.prototype.indexOf(p, from): first position >= from, 0 when absent
IndexOf(s, p, from) ==
  LET cands == {i \in from..(Len(s) - Len(p) + 1) : StartsWithAt(s, i, p)}
  IN  IF cands = {} THEN 0 ELSE Min(cands)

\* String.prototype.endsWith
EndsWith(s, suffix) ==
  /\ Len(suffix) <= Len(s)
  /\ StartsWithAt(s, Len(s) - Len(suffix) + 1, suffix)

\* s[from..to], empty when the range is empty
Slice(s, from, to) == IF from > to THEN <<>> ELSE SubSeq(s, from, to)

RECURSIVE ReplaceAllFrom(_, _, _, _)
ReplaceAllFrom(s, pat, rep, from) ==
  LET i == IndexOf(s, pat, from)
  IN  IF i = 0
      THEN Slice(s, from, Len(s))
      ELSE Slice(s, from, i - 1) \o rep \o ReplaceAllFrom(s, pat, rep, i + Len(pat))

\* s.replace(/pat/g, rep) for a literal pattern and a replacement without "$"
ReplaceAll(s, pat, rep) == ReplaceAllFrom(s, pat, rep, 1)

HtmlSuffix == <<".", "h", "t", "m", "l">>

(***************************************************************************)
(* Configuration of the script                                             *)
(***************************************************************************)
PUBLIC_DIR == << <<"p", "u", "b", "l", "i", "c">> >>

THEME == "github-dark"

L_typescript == <<"t", "y", "p", "e", "s", "c", "r", "i", "p", "t">>
L_javascript == <<"j", "a", "v", "a", "s", "c", "r", "i", "p", "t">>
L_python     == <<"p", "y", "t", "h", "o", "n">>
L_rust       == <<"r", "u", "s", "t">>
L_go         == <<"g", "o">>
L_bash       == <<"b", "a", "s", "h">>
L_json       == <<"j", "s", "o", "n">>
L_yaml       == <<"y", "a", "m", "l">>
L_toml       == <<"t", "o", "m", "l">>
L_markdown   == <<"m", "a", "r", "k", "d", "o", "w", "n">>
L_html       == <<"h", "t", "m", "l">>
L_css        == <<"c", "s", "s">>
L_scss       == <<"s", "c", "s", "s">>
\* a language tag outside the list
L_brainfuck  == <<"b", "r", "a", "i", "n", "f", "u", "c", "k">>

LANGUAGES ==
  << L_typescript, L_javascript, L_python, L_rust, L_go, L_bash, L_json,
     L_yaml, L_toml, L_markdown, L_html, L_css, L_scss >>

\* Array.prototype.includes
Includes(arr, x) == \E k \in 1..Len(arr) : arr[k] = x

(***************************************************************************)
(* The code block pattern                                                  *)
(*   /<pre><code class="language-(\w+)">([\s\S]*?)<\/code><\/pre>/g       *)
(***************************************************************************)
OpenPrefix ==
  <<"<", "p", "r", "e", ">", "<", "c", "o", "d", "e", " ", "c", "l", "a", "s",
    "s", "=", "\"", "l", "a", "n", "g", "u", "a", "g", "e", "-">>
OpenSuffix == <<"\"", ">">>
CloseTag ==
  <<"<", "/", "c", "o", "d", "e", ">", "<", "/", "p", "r", "e", ">">>

\* \w
WordChars ==
  {"a", "b", "c", "d", "e", "f", "g", "h", "i", "j", "k", "l", "m", "n", "o",
   "p", "q", "r", "s", "t", "u", "v", "w", "x", "y", "z",
   "A", "B", "C", "D", "E", "F", "G", "H", "I", "J", "K", "L", "M", "N", "O",
   "P", "Q", "R", "S", "T", "U", "V", "W", "X", "Y", "Z",
   "0", "1", "2", "3", "4", "5", "6", "7", "8", "9", "_"}

\* end of the longest run of \w characters starting at j (j - 1 when none)
WordEnd(s, j) ==
  LET stops == {k \in j..(Len(s) + 1) : k = Len(s) + 1 \/ s[k] \notin WordChars}
  IN  Min(stops) - 1

NoMatch == [index |-> 0, full |-> <<>>, lang |-> <<>>, code |-> <<>>]

\* the match of codeBlockRegex anchored at position i, NoMatch when none
MatchAt(s, i) ==
  IF ~StartsWithAt(s, i, OpenPrefix) THEN NoMatch
  ELSE
    LET j == i + Len(OpenPrefix)
        k == WordEnd(s, j)
    IN  IF k < j \/ ~StartsWithAt(s, k + 1, OpenSuffix) THEN NoMatch
        ELSE
          LET p == k + 1 + Len(OpenSuffix)
              e == IndexOf(s, CloseTag, p)
          IN  IF e = 0 THEN NoMatch
              ELSE [index |-> i,
                    full  |-> SubSeq(s, i, e + Len(CloseTag) - 1),
                    lang  |-> SubSeq(s, j, k),
                    code  |-> Slice(s, p, e - 1)]

RECURSIVE MatchAllFrom(_, _)
MatchAllFrom(s, from) ==
  LET starts == {i \in from..Len(s) : MatchAt(s, i).index # 0}
  IN  IF starts = {} THEN <<>>
      ELSE LET m == MatchAt(s, Min(starts))
           IN  <<m>> \o MatchAllFrom(s, m.index + Len(m.full))

\* Array.from(content.matchAll(codeBlockRegex))
MatchAll(s) == MatchAllFrom(s, 1)

(***************************************************************************)
(* Entity decoding                                                         *)
(***************************************************************************)
E_lt   == <<"&", "l", "t", ";">>
E_gt   == <<"&", "g", "t", ";">>
E_amp  == <<"&", "a", "m", "p", ";">>
E_quot == <<"&", "q", "u", "o", "t", ";">>
E_apos == <<"&", "#", "3", "9", ";">>

\* a decoding that replaces &amp; first
DecodeEntities_AmpFirst(code) ==
  ReplaceAll(
    ReplaceAll(
      ReplaceAll(
        ReplaceAll(
          ReplaceAll(code, E_amp, <<"&">>),
          E_lt, <<"<">>),
        E_gt, <<">">>),
      E_quot, <<"\"">>),
    E_apos, <<"'">>)

DecodeEntities(code) ==
  ReplaceAll(
    ReplaceAll(
      ReplaceAll(
        ReplaceAll(
          ReplaceAll(code, E_lt, <<"<">>),
          E_gt, <<">">>),
        E_amp, <<"&">>),
      E_quot, <<"\"">>),
    E_apos, <<"'">>)

(***************************************************************************)
(* String.prototype.replace(searchString, replaceString)                   *)
(***************************************************************************)
\* the grave accent, a character no string literal of this module can hold
GraveAccent == "grave"

\* GetSubstitution for a string pattern (no captures): "$$", "$&", "$" with
\* a grave accent (the text before the match) and "$'" (the text after it)
RECURSIVE GetSubstitution(_, _, _, _, _)
GetSubstitution(matched, str, position, replacement, k) ==
  IF k > Len(replacement) THEN <<>>
  ELSE IF replacement[k] = "$" /\ k < Len(replacement)
       THEN LET c == replacement[k + 1]
            IN  IF c = "$"
                THEN <<"$">> \o GetSubstitution(matched, str, position, replacement, k + 2)
                ELSE IF c = "&"
                THEN matched \o GetSubstitution(matched, str, position, replacement, k + 2)
                ELSE IF c = GraveAccent
                THEN Slice(str, 1, position - 1)
                       \o GetSubstitution(matched, str, position, replacement, k + 2)
                ELSE IF c = "'"
                THEN Slice(str, position + Len(matched), Len(str))
                       \o GetSubstitution(matched, str, position, replacement, k + 2)
                ELSE <<"$">> \o GetSubstitution(matched, str, position, replacement, k + 1)
       ELSE <<replacement[k]>> \o GetSubstitution(matched, str, position, replacement, k + 1)

\* position at which str.replace(searchString, ...) acts, 0 when absent
ReplacePos(str, searchString) == IndexOf(str, searchString, 1)

\* the text str.replace(searchString, replaceString) puts in place
ReplaceText(str, searchString, replaceString) ==
  GetSubstitution(searchString, str, ReplacePos(str, searchString), replaceString, 1)

\* str.replace(searchString, replaceString): first occurrence only
StringReplace(str, searchString, replaceString) ==
  LET pos == ReplacePos(str, searchString)
  IN  IF pos = 0 THEN str
      ELSE Slice(str, 1, pos - 1)
             \o ReplaceText(str, searchString, replaceString)
             \o Slice(str, pos + Len(searchString), Len(str))

(***************************************************************************)
(* The directory tree under PUBLIC_DIR                                     *)
(***************************************************************************)
N_index_html == <<"i", "n", "d", "e", "x", ".", "h", "t", "m", "l">>
N_index_xml  == <<"i", "n", "d", "e", "x", ".", "x", "m", "l">>
N_posts      == <<"p", "o", "s", "t", "s">>
N_b_html     == <<"b", ".", "h", "t", "m", "l">>
N_c_html     == <<"c", ".", "h", "t", "m", "l">>

Names == {N_index_html, N_index_xml, N_posts, N_b_html, N_c_html}

\* path.join(dir, file)
Join(dir, file) == Append(dir, file)

P_posts  == Join(PUBLIC_DIR, N_posts)
\* a directory whose name ends in .html
P_b_html == Join(P_posts, N_b_html)

Dirs == {PUBLIC_DIR, P_posts, P_b_html}

F_index_html == Join(PUBLIC_DIR, N_index_html)
F_index_xml  == Join(PUBLIC_DIR, N_index_xml)
F_c_html     == Join(P_b_html, N_c_html)

Files == {F_index_html, F_index_xml, F_c_html}

\* the regular files whose name ends in .html
HtmlFiles == {f \in Files : EndsWith(f[Len(f)], HtmlSuffix)}

\* the trees the script is run over: the full tree, and one without any
\* .html file
FullTree == (Dirs \ {PUBLIC_DIR}) \cup Files
BareTree == (Dirs \ {PUBLIC_DIR}) \cup {F_index_xml}
Trees == {FullTree, BareTree}

\* the orders in which readdirSync may list a set of names
Orders(S) ==
  {o \in [1..Cardinality(S) -> S] : \A i, j \in 1..Cardinality(S) : o[i] = o[j] => i = j}

(***************************************************************************)
(* Documents: concatenations of segments                                   *)
(***************************************************************************)
Block(lang, payload) == OpenPrefix \o lang \o OpenSuffix \o payload \o CloseTag

SegText        == <<"<", "p", ">", "a", "<", "/", "p", ">">>
SegPython      == Block(L_python, <<"a">> \o E_lt \o <<"b">>)
SegBrainfuck   == Block(L_brainfuck, <<"+">>)
SegRust        == Block(L_rust, <<"x">>)
\* an unclosed open tag in front of a block: the scan pairs the outer open
\* tag with the inner block's close tag
SegOpenBrainfuck == OpenPrefix \o L_brainfuck \o OpenSuffix \o SegRust
SegOpenPython    == OpenPrefix \o L_python \o OpenSuffix \o SegRust

Segments ==
  <<SegText, SegPython, SegBrainfuck, SegRust, SegOpenBrainfuck, SegOpenPython>>

RECURSIVE Concat(_, _, _)
\* the segments ids[k] with owner[k] = f, in order, concatenated
Concat(ids, owner, f) ==
  IF ids = <<>> THEN <<>>
  ELSE (IF Head(owner) = f THEN Segments[Head(ids)] ELSE <<>>)
         \o Concat(Tail(ids), Tail(owner), f)

\* the initial contents of the files: index.xml (a feed, never a target of
\* the script) holds a python block; the .html files share up to MaxSegs
\* segments
InitialDisks ==
  UNION { UNION { { [f \in Files |->
                      IF f = F_index_xml THEN SegPython ELSE Concat(ids, owner, f)]
                    : owner \in [1..n -> HtmlFiles] }
                  : ids \in [1..n -> 1..Len(Segments)] }
          : n \in 0..MaxSegs }

EmptyDisk == [f \in Files |-> <<>>]

\* the content of the tree without .html files
BareDisk == [f \in Files |-> IF f = F_index_xml THEN SegPython ELSE <<>>]

(***************************************************************************)
(* The highlighting engine (shiki's codeToHtml), a black box               *)
(***************************************************************************)
ShikiOpen ==
  <<"<", "p", "r", "e", " ", "c", "l", "a", "s", "s", "=", "\"", "s", "h", "i",
    "k", "i", "\"", ">", "<", "c", "o", "d", "e", ">">>

\* markup fragments the engine may return: shiki wraps the tokens in
\* <pre class="shiki"><code>...</code></pre> and escapes < and &, so a
\* fragment never contains the open tag of a block, but it may contain "$"
FragPlain  == ShikiOpen \o <<"x">> \o CloseTag
\* the tokens of the bash line  echo $$ $'x' : in a replacement string "$$"
\* stands for "$" and "$'" for the text after the match
FragDollar ==
  ShikiOpen \o <<"$", "$", " ", "$", "'", "x", "'">> \o CloseTag

Fragments == {FragPlain, FragDollar}

EngineFailure == [ok |-> FALSE, html |-> <<>>]

EngineResults == {EngineFailure} \cup {[ok |-> TRUE, html |-> h] : h \in Fragments}

(***************************************************************************)
(* State                                                                   *)
(***************************************************************************)
VARIABLES
  rootExists,   \* whether PUBLIC_DIR exists on disk
  disk,         \* content of every file of the tree
  pc,           \* position of main: "main", "walk", "highlight", "complete", "exit1"
  stack,        \* the active walkDir calls: [dir, files (entries still to iterate)]
  cur,          \* the locals of the current (or last) highlightFile call
  engine,       \* the engine's answers so far, keyed by <<lang, decodedCode>>
  exitCode,     \* process exit code, -1 while running
  run,          \* number of the current run of the script
  visits,       \* per file: highlightFile invocations in this run
  listed,       \* per directory: readdirSync calls in this run
  writes,       \* per file: writeFileSync calls completed in this run
  diskStart,    \* disk as it was when this run started
  rootAtStart,  \* rootExists as it was when this run started
  fault,        \* the file system call that threw in this run, "none" if none
  failed,       \* the files in which an engine call failed in this run
  dec,          \* the entity decoding taken alone: [state, payload, decoded]
  entries,      \* the directories and files that exist under PUBLIC_DIR
  console,      \* the lines printed by this run
  tally,        \* per run: blocks matched, highlighted, skipped and failed
  css           \* the CSS build script taken alone: its position, the output
                \* directory and file, its console and exit code

vars ==
  <<rootExists, disk, pc, stack, cur, engine, exitCode, run, visits, listed,
    writes, diskStart, rootAtStart, fault, failed, dec, entries, console,
    tally, css>>

\* the names readdirSync(dir) returns, in no particular order
Children(dir) == {n \in Names : Join(dir, n) \in entries}

\* no highlightFile call yet
NoFile ==
  [status |-> "none", filePath |-> <<>>, content |-> <<>>, matches |-> <<>>,
   i |-> 1, newContent |-> <<>>, modified |-> FALSE,
   outcome |-> <<>>, fragment |-> <<>>, inserted |-> <<>>,
   call |-> <<>>, pos |-> <<>>]

NoTally == [matched |-> 0, highlighted |-> 0, skipped |-> 0, failed |-> 0]

\* console.log / console.error lines; path is <<>> for a line without one
Line(stream, msg, path) == [stream |-> stream, msg |-> msg, path |-> path]

\* "Highlighting code blocks with Shiki...", "Theme: ...", "Languages: ..."
Banner ==
  <<Line("log", "Highlighting code blocks with Shiki...", <<>>),
    Line("log", "Theme:", <<>>),
    Line("log", "Languages:", <<>>)>>

\* the decoding is not looked at on its own
NoDecode == [state |-> "off", payload |-> <<>>, decoded |-> <<>>]

\* the CSS build script is not looked at
NoCss ==
  [pc |-> "off", source |-> 0, dirExists |-> FALSE, dirAtStart |-> FALSE,
   file |-> 0, fileAtStart |-> 0, result |-> 0, mkdirs |-> 0, writes |-> 0,
   console |-> <<>>, exitCode |-> -1, fault |-> "none"]

Init ==
  /\ rootExists \in BOOLEAN
  \* a missing root has no tree below it
  /\ entries \in (IF rootExists THEN Trees ELSE {{}})
  \* only the full tree has .html files to hold documents
  /\ disk \in (IF ~rootExists THEN {EmptyDisk}
               ELSE IF entries = FullTree THEN InitialDisks
               ELSE {BareDisk})
  /\ pc = "main"
  /\ stack = <<>>
  /\ cur = NoFile
  /\ engine = <<>>
  /\ exitCode = -1
  /\ run = 1
  /\ visits = [f \in Files |-> 0]
  /\ listed = [d \in Dirs |-> 0]
  /\ writes = [f \in Files |-> 0]
  /\ diskStart = disk
  /\ rootAtStart = rootExists
  /\ fault = "none"
  /\ failed = {}
  /\ dec = NoDecode
  /\ console = <<>>
  /\ tally = NoTally
  /\ css = NoCss

(***************************************************************************)
(* main                                                                    *)
(***************************************************************************)
\* the catch block of main without process.exit(1): the error is logged and
\* the process ends with exit code 0
Exit1_NoExit(call) ==
  /\ pc' = "exit1"
  /\ exitCode' = 0
  /\ fault' = call
  /\ console' = Append(IF pc = "main" THEN Banner ELSE console,
                       Line("error", "Error during highlighting:", <<>>))

\* the catch block of main: console.error, process.exit(1)
Exit1(call) ==
  /\ pc' = "exit1"
  /\ exitCode' = 1
  /\ fault' = call
  /\ console' = Append(IF pc = "main" THEN Banner ELSE console,
                       Line("error", "Error during highlighting:", <<>>))

\* main calls walkDir(PUBLIC_DIR), whose readdirSync succeeds
Main ==
  /\ pc = "main"
  /\ rootExists
  /\ \E order \in Orders(Children(PUBLIC_DIR)) :
       stack' = <<[dir |-> PUBLIC_DIR, files |-> order]>>
  /\ listed' = [listed EXCEPT ![PUBLIC_DIR] = @ + 1]
  /\ pc' = "walk"
  /\ console' = Banner
  /\ UNCHANGED <<rootExists, disk, cur, engine, exitCode, run, visits, writes,
                 diskStart, rootAtStart, fault, failed, dec, entries, tally,
                 css>>

\* readdirSync(PUBLIC_DIR) throws: the directory is missing (ENOENT) or
\* cannot be listed
MainReaddirThrows ==
  /\ pc = "main"
  /\ Exit1(IF rootExists THEN "readdir" ELSE "missing")
  /\ UNCHANGED <<rootExists, disk, stack, cur, engine, run, visits, listed,
                 writes, diskStart, rootAtStart, failed, dec, entries, tally,
                 css>>

(***************************************************************************)
(* walkDir                                                                 *)
(***************************************************************************)
Top == stack[Len(stack)]
TopFile == Head(Top.files)
TopPath == Join(Top.dir, TopFile)

\* stat.isDirectory()
IsDirectory(path) == path \in Dirs

\* the branch of a walkDir that tests the name before the kind of the entry
\* and so takes nothing named *.html for a directory
EntryBranch_NameFirst(isDirectory, file) ==
  IF EndsWith(file, HtmlSuffix)
  THEN (IF isDirectory THEN "next" ELSE "highlightFile")
  ELSE IF isDirectory THEN "walkDir"
  ELSE "next"

\* the branch walkDir takes for one entry
EntryBranch(isDirectory, file) ==
  IF isDirectory THEN "walkDir"
  ELSE IF EndsWith(file, HtmlSuffix) THEN "highlightFile"
  ELSE "next"

\* the for loop moves past the current entry
Advance(stk) == [stk EXCEPT ![Len(stk)].files = Tail(@)]

InLoop == pc = "walk" /\ stack # <<>> /\ Top.files # <<>>

\* a walkDir that catches the error of statSync and goes on with the next
\* entry
StatThrows_SkipsEntry ==
  /\ InLoop
  /\ stack' = Advance(stack)
  /\ fault' = "stat"
  /\ console' = Append(console, Line("error", "Error during highlighting:", <<>>))
  /\ UNCHANGED <<rootExists, disk, pc, cur, engine, exitCode, run, visits,
                 listed, writes, diskStart, rootAtStart, failed, dec, entries,
                 tally,
                 css>>

\* statSync(filePath) throws
StatThrows ==
  /\ InLoop
  /\ Exit1("stat")
  /\ UNCHANGED <<rootExists, disk, stack, cur, engine, run, visits, listed,
                 writes, diskStart, rootAtStart, failed, dec, entries, tally,
                 css>>

\* the entry is a directory: await walkDir(filePath)
WalkRecurse ==
  /\ InLoop
  /\ EntryBranch(IsDirectory(TopPath), TopFile) = "walkDir"
  /\ \E order \in Orders(Children(TopPath)) :
       stack' = Append(Advance(stack), [dir |-> TopPath, files |-> order])
  /\ listed' = [listed EXCEPT ![TopPath] = @ + 1]
  /\ UNCHANGED <<rootExists, disk, pc, cur, engine, exitCode, run, visits,
                 writes, diskStart, rootAtStart, fault, failed, dec,
                 entries, console, tally,
                 css>>

\* the entry is a directory and readdirSync(filePath) throws
WalkReaddirThrows ==
  /\ InLoop
  /\ EntryBranch(IsDirectory(TopPath), TopFile) = "walkDir"
  /\ Exit1("readdir")
  /\ UNCHANGED <<rootExists, disk, stack, cur, engine, run, visits, listed,
                 writes, diskStart, rootAtStart, failed, dec, entries, tally,
                 css>>

\* a loop that never moves past an entry it has nothing to do with
WalkNext_NoAdvance ==
  /\ InLoop
  /\ EntryBranch(IsDirectory(TopPath), TopFile) = "next"
  /\ UNCHANGED vars

\* the entry is neither a directory nor named *.html
WalkNext ==
  /\ InLoop
  /\ EntryBranch(IsDirectory(TopPath), TopFile) = "next"
  /\ stack' = Advance(stack)
  /\ UNCHANGED <<rootExists, disk, pc, cur, engine, exitCode, run, visits,
                 listed, writes, diskStart, rootAtStart, fault, failed, dec,
                 entries, console, tally,
                 css>>

\* a main that treats a walk in which nothing was highlighted as a failure
WalkReturn_NothingDone ==
  /\ pc = "walk"
  /\ stack # <<>>
  /\ Top.files = <<>>
  /\ stack' = SubSeq(stack, 1, Len(stack) - 1)
  /\ IF Len(stack) = 1
     THEN IF tally.highlighted = 0
          THEN /\ pc' = "exit1"
               /\ exitCode' = 1
               /\ console' = Append(console, Line("error", "Nothing to highlight", <<>>))
          ELSE /\ pc' = "complete"
               /\ exitCode' = 0
               /\ console' = Append(console, Line("log", "Code highlighting complete!", <<>>))
     ELSE UNCHANGED <<pc, exitCode, console>>
  /\ UNCHANGED <<rootExists, disk, cur, engine, run, visits, listed, writes,
                 diskStart, rootAtStart, fault, failed, dec, entries, tally,
                 css>>

\* the for loop of a walkDir call is over: the call returns; when it was
\* walkDir(PUBLIC_DIR), main prints the completion message
WalkReturn ==
  /\ pc = "walk"
  /\ stack # <<>>
  /\ Top.files = <<>>
  /\ stack' = SubSeq(stack, 1, Len(stack) - 1)
  /\ IF Len(stack) = 1
     THEN /\ pc' = "complete"
          /\ exitCode' = 0
          /\ console' = Append(console, Line("log", "Code highlighting complete!", <<>>))
     ELSE UNCHANGED <<pc, exitCode, console>>
  /\ UNCHANGED <<rootExists, disk, cur, engine, run, visits, listed, writes,
                 diskStart, rootAtStart, fault, failed, dec, entries, tally,
                 css>>

(***************************************************************************)
(* highlightFile                                                           *)
(***************************************************************************)
\* newContent kept in a variable shared by all calls of highlightFile and
\* assigned only while it holds no modification
HighlightFile_SharedBuffer ==
  /\ InLoop
  /\ EntryBranch(IsDirectory(TopPath), TopFile) = "highlightFile"
  /\ stack' = Advance(stack)
  /\ visits' = [visits EXCEPT ![TopPath] = @ + 1]
  /\ cur' = [status |-> "running", filePath |-> TopPath,
             content |-> disk[TopPath], matches |-> MatchAll(disk[TopPath]),
             i |-> 1, newContent |-> IF cur.modified THEN cur.newContent ELSE disk[TopPath], modified |-> FALSE,
             outcome |-> <<>>, fragment |-> <<>>, inserted |-> <<>>,
             call |-> <<>>, pos |-> <<>>]
  /\ pc' = "highlight"
  /\ tally' = [tally EXCEPT !.matched = @ + Len(MatchAll(disk[TopPath]))]
  /\ UNCHANGED <<rootExists, disk, engine, exitCode, run, listed, writes,
                 diskStart, rootAtStart, fault, failed, dec, entries, console,
                 css>>

\* walkDir calling highlightFile without await: the loop goes on at once
HighlightFile_NotAwaited ==
  /\ InLoop
  /\ EntryBranch(IsDirectory(TopPath), TopFile) = "highlightFile"
  /\ stack' = Advance(stack)
  /\ visits' = [visits EXCEPT ![TopPath] = @ + 1]
  /\ cur' = [status |-> "running", filePath |-> TopPath,
             content |-> disk[TopPath], matches |-> MatchAll(disk[TopPath]),
             i |-> 1, newContent |-> disk[TopPath], modified |-> FALSE,
             outcome |-> <<>>, fragment |-> <<>>, inserted |-> <<>>,
             call |-> <<>>, pos |-> <<>>]
  /\ pc' = "walk"
  /\ tally' = [tally EXCEPT !.matched = @ + Len(MatchAll(disk[TopPath]))]
  /\ UNCHANGED <<rootExists, disk, engine, exitCode, run, listed, writes,
                 diskStart, rootAtStart, fault, failed, dec, entries, console,
                 css>>

\* the entry is a file named *.html: highlightFile(filePath) reads it and
\* collects the matches
HighlightFile ==
  /\ InLoop
  /\ EntryBranch(IsDirectory(TopPath), TopFile) = "highlightFile"
  /\ stack' = Advance(stack)
  /\ visits' = [visits EXCEPT ![TopPath] = @ + 1]
  /\ cur' = [status |-> "running", filePath |-> TopPath,
             content |-> disk[TopPath], matches |-> MatchAll(disk[TopPath]),
             i |-> 1, newContent |-> disk[TopPath], modified |-> FALSE,
             outcome |-> <<>>, fragment |-> <<>>, inserted |-> <<>>,
             call |-> <<>>, pos |-> <<>>]
  /\ pc' = "highlight"
  /\ tally' = [tally EXCEPT !.matched = @ + Len(MatchAll(disk[TopPath]))]
  /\ UNCHANGED <<rootExists, disk, engine, exitCode, run, listed, writes,
                 diskStart, rootAtStart, fault, failed, dec, entries, console,
                 css>>

\* readFileSync(filePath) throws
ReadFileThrows ==
  /\ InLoop
  /\ EntryBranch(IsDirectory(TopPath), TopFile) = "highlightFile"
  /\ visits' = [visits EXCEPT ![TopPath] = @ + 1]
  /\ Exit1("read")
  /\ UNCHANGED <<rootExists, disk, stack, cur, engine, run, listed, writes,
                 diskStart, rootAtStart, failed, dec, entries, tally,
                 css>>

InBlocks == pc = "highlight" /\ cur.i <= Len(cur.matches)
\* the loop taking the matches from the last to the first
Match_LastFirst == cur.matches[Len(cur.matches) + 1 - cur.i]

\* const match of matches: the match of the current iteration
Match == cur.matches[cur.i]

\* no call of codeToHtml for a block
NoCall == [code |-> <<>>, lang |-> <<>>, theme |-> ""]

\* if (!lang || !LANGUAGES.includes(lang)) continue
Skipped(lang) == lang = <<>> \/ ~Includes(LANGUAGES, lang)

HighlightSkip ==
  /\ InBlocks
  /\ Skipped(Match.lang)
  /\ cur' = [cur EXCEPT !.i = @ + 1,
                        !.outcome = Append(@, "skip"),
                        !.fragment = Append(@, <<>>),
                        !.inserted = Append(@, <<>>),
                        !.call = Append(@, NoCall),
                        !.pos = Append(@, 0)]
  /\ tally' = [tally EXCEPT !.skipped = @ + 1]
  /\ UNCHANGED <<rootExists, disk, pc, stack, engine, exitCode, run, visits,
                 listed, writes, diskStart, rootAtStart, fault, failed, dec,
                 entries, console,
                 css>>

\* codeToHtml given the payload as it stands in the document
EngineKey_Raw == <<Match.lang, Match.code>>

\* the argument of codeToHtml for the current match
EngineKey == <<Match.lang, DecodeEntities(Match.code)>>

\* codeToHtml(decodedCode, { lang, theme: THEME })
EngineCall == [code |-> EngineKey[2], lang |-> EngineKey[1], theme |-> THEME]

\* what codeToHtml may answer: its earlier answer for the same input, if any
EngineAnswers ==
  IF EngineKey \in DOMAIN engine THEN {engine[EngineKey]} ELSE EngineResults

\* the statements after a successful await codeToHtml(...)
Splice(newContent, fullMatch, highlighted) ==
  StringReplace(newContent, fullMatch, highlighted)

\* the document written back after every replacement
HighlightBlock_WritesEach ==
  /\ InBlocks
  /\ ~Skipped(Match.lang)
  /\ \E r \in EngineAnswers :
       /\ r.ok
       /\ engine' = (EngineKey :> r) @@ engine
       /\ cur' = [cur EXCEPT
                    !.i = @ + 1,
                    !.newContent = Splice(@, Match.full, r.html),
                    !.modified = TRUE,
                    !.outcome = Append(@, "ok"),
                    !.fragment = Append(@, r.html),
                    !.inserted =
                      Append(@, IF ReplacePos(cur.newContent, Match.full) = 0
                                THEN <<>>
                                ELSE ReplaceText(cur.newContent, Match.full, r.html)),
                    !.call = Append(@, EngineCall),
                    !.pos = Append(@, ReplacePos(cur.newContent, Match.full))]
  /\ tally' = [tally EXCEPT !.highlighted = @ + 1]
  /\ disk' = [disk EXCEPT ![cur.filePath] = cur'.newContent]
  /\ writes' = [writes EXCEPT ![cur.filePath] = @ + 1]
  /\ UNCHANGED <<rootExists, pc, stack, exitCode, run, visits, listed,
                 diskStart, rootAtStart, fault, failed, dec, entries,
                 console,
                 css>>

\* codeToHtml returns a fragment, which replaces the block
HighlightBlock ==
  /\ InBlocks
  /\ ~Skipped(Match.lang)
  /\ \E r \in EngineAnswers :
       /\ r.ok
       /\ engine' = (EngineKey :> r) @@ engine
       /\ cur' = [cur EXCEPT
                    !.i = @ + 1,
                    !.newContent = Splice(@, Match.full, r.html),
                    !.modified = TRUE,
                    !.outcome = Append(@, "ok"),
                    !.fragment = Append(@, r.html),
                    !.inserted =
                      Append(@, IF ReplacePos(cur.newContent, Match.full) = 0
                                THEN <<>>
                                ELSE ReplaceText(cur.newContent, Match.full, r.html)),
                    !.call = Append(@, EngineCall),
                    !.pos = Append(@, ReplacePos(cur.newContent, Match.full))]
  /\ tally' = [tally EXCEPT !.highlighted = @ + 1]
  /\ UNCHANGED <<rootExists, disk, pc, stack, exitCode, run, visits, listed,
                 writes, diskStart, rootAtStart, fault, failed, dec, entries,
                 console,
                 css>>

\* codeToHtml throws and nothing in highlightFile catches it: the error
\* reaches the catch block of main
HighlightError_Uncaught ==
  /\ InBlocks
  /\ ~Skipped(Match.lang)
  /\ \E r \in EngineAnswers :
       /\ ~r.ok
       /\ engine' = (EngineKey :> r) @@ engine
  /\ cur' = [cur EXCEPT !.outcome = Append(@, "fail"),
                        !.fragment = Append(@, <<>>),
                        !.inserted = Append(@, <<>>),
                        !.call = Append(@, EngineCall),
                        !.pos = Append(@, 0),
                        !.status = "threw"]
  /\ failed' = failed \cup {cur.filePath}
  /\ pc' = "exit1"
  /\ exitCode' = 1
  /\ tally' = [tally EXCEPT !.failed = @ + 1]
  /\ console' = Append(console, Line("error", "Error highlighting", cur.filePath))
  /\ UNCHANGED <<rootExists, disk, stack, run, visits, listed, writes,
                 diskStart, rootAtStart, fault, dec, entries,
                 css>>

\* codeToHtml throws: the catch block logs the error and the loop goes on
HighlightError ==
  /\ InBlocks
  /\ ~Skipped(Match.lang)
  /\ \E r \in EngineAnswers :
       /\ ~r.ok
       /\ engine' = (EngineKey :> r) @@ engine
  /\ cur' = [cur EXCEPT !.i = @ + 1,
                        !.outcome = Append(@, "fail"),
                        !.fragment = Append(@, <<>>),
                        !.inserted = Append(@, <<>>),
                        !.call = Append(@, EngineCall),
                        !.pos = Append(@, 0)]
  /\ failed' = failed \cup {cur.filePath}
  /\ tally' = [tally EXCEPT !.failed = @ + 1]
  /\ console' = Append(console, Line("error", "Error highlighting", cur.filePath))
  /\ UNCHANGED <<rootExists, disk, pc, stack, exitCode, run, visits, listed,
                 writes, diskStart, rootAtStart, fault, dec, entries,
                 css>>

AfterBlocks == pc = "highlight" /\ cur.i > Len(cur.matches)

\* highlightFile writing the document back whether or not it was modified
HighlightReturn_AlwaysWrites ==
  /\ AfterBlocks
  /\ disk' = [disk EXCEPT ![cur.filePath] = cur.newContent]
  /\ writes' = [writes EXCEPT ![cur.filePath] = @ + 1]
  /\ cur' = [cur EXCEPT !.status = "returned"]
  /\ pc' = "walk"
  /\ console' = Append(console, Line("log", "Highlighted code blocks in", cur.filePath))
  /\ UNCHANGED <<rootExists, stack, engine, exitCode, run, visits, listed,
                 diskStart, rootAtStart, fault, failed, dec, entries, tally,
                 css>>

\* highlightFile writing the document to index.xml instead of filePath
HighlightReturn_OtherPath ==
  /\ AfterBlocks
  /\ IF cur.modified
     THEN /\ disk' = [disk EXCEPT ![F_index_xml] = cur.newContent]
          /\ writes' = [writes EXCEPT ![F_index_xml] = @ + 1]
          /\ console' = Append(console, Line("log", "Highlighted code blocks in", cur.filePath))
     ELSE UNCHANGED <<disk, writes, console>>
  /\ cur' = [cur EXCEPT !.status = "returned"]
  /\ pc' = "walk"
  /\ UNCHANGED <<rootExists, stack, engine, exitCode, run, visits, listed,
                 diskStart, rootAtStart, fault, failed, dec, entries, tally,
                 css>>

\* if (modified) writeFileSync(filePath, newContent); highlightFile returns
HighlightReturn ==
  /\ AfterBlocks
  /\ IF cur.modified
     THEN /\ disk' = [disk EXCEPT ![cur.filePath] = cur.newContent]
          /\ writes' = [writes EXCEPT ![cur.filePath] = @ + 1]
          /\ console' = Append(console, Line("log", "Highlighted code blocks in", cur.filePath))
     ELSE UNCHANGED <<disk, writes, console>>
  /\ cur' = [cur EXCEPT !.status = "returned"]
  /\ pc' = "walk"
  /\ UNCHANGED <<rootExists, stack, engine, exitCode, run, visits, listed,
                 diskStart, rootAtStart, fault, failed, dec, entries, tally,
                 css>>

\* writeFileSync(filePath, newContent) throws
WriteFileThrows ==
  /\ AfterBlocks
  /\ cur.modified
  /\ cur' = [cur EXCEPT !.status = "threw"]
  /\ Exit1("write")
  /\ UNCHANGED <<rootExists, disk, stack, engine, run, visits, listed, writes,
                 diskStart, rootAtStart, failed, dec, entries, tally,
                 css>>

(***************************************************************************)
(* Running the script again over the same tree                             *)
(***************************************************************************)
Rerun ==
  /\ pc = "complete"
  /\ run < MaxRuns
  /\ \A f \in Files : Len(disk[f]) <= MaxDocLen
  /\ run' = run + 1
  /\ pc' = "main"
  /\ exitCode' = -1
  /\ cur' = NoFile
  /\ visits' = [f \in Files |-> 0]
  /\ listed' = [d \in Dirs |-> 0]
  /\ writes' = [f \in Files |-> 0]
  /\ diskStart' = disk
  /\ rootAtStart' = rootExists
  /\ failed' = {}
  /\ console' = <<>>
  /\ tally' = NoTally
  /\ UNCHANGED <<rootExists, disk, stack, engine, fault, dec, entries, css>>

Next ==
  \/ Main
  \/ MainReaddirThrows
  \/ StatThrows
  \/ WalkRecurse
  \/ WalkReaddirThrows
  \/ WalkNext
  \/ WalkReturn
  \/ HighlightFile
  \/ ReadFileThrows
  \/ HighlightSkip
  \/ HighlightBlock
  \/ HighlightError
  \/ HighlightReturn
  \/ WriteFileThrows
  \/ Rerun

Spec == Init /\ [][Next]_vars

(***************************************************************************)
(* The entity decoding of highlightFile on payloads of its own             *)
(***************************************************************************)
R_lt   == <<"l", "t", ";">>
R_quot == <<"q", "u", "o", "t", ";">>
R_apos == <<"#", "3", "9", ";">>

\* what payloads are made of: the five entities, a letter, and the text
\* that follows the "&" of an entity
Pieces == <<E_lt, E_gt, E_amp, E_quot, E_apos, <<"a">>, R_lt, R_quot, R_apos>>

RECURSIVE Pieced(_)
Pieced(ids) == IF ids = <<>> THEN <<>> ELSE Pieces[Head(ids)] \o Pieced(Tail(ids))

\* &lt;div class=&quot;x&quot;&gt;
PayloadDiv ==
  E_lt \o <<"d", "i", "v", " ", "c", "l", "a", "s", "s", "=">> \o E_quot
       \o <<"x">> \o E_quot \o E_gt

Payloads ==
  {PayloadDiv}
    \cup UNION { {Pieced(ids) : ids \in [1..n -> 1..Len(Pieces)]} : n \in 0..MaxPieces }

InitDecode ==
  /\ rootExists = FALSE
  /\ disk = EmptyDisk
  /\ pc = "decode"
  /\ stack = <<>>
  /\ cur = NoFile
  /\ engine = <<>>
  /\ exitCode = -1
  /\ run = 1
  /\ visits = [f \in Files |-> 0]
  /\ listed = [d \in Dirs |-> 0]
  /\ writes = [f \in Files |-> 0]
  /\ diskStart = disk
  /\ rootAtStart = rootExists
  /\ fault = "none"
  /\ failed = {}
  /\ entries = {}
  /\ console = <<>>
  /\ tally = NoTally
  /\ css = NoCss
  /\ \E code \in Payloads : dec = [state |-> "input", payload |-> code, decoded |-> <<>>]

\* const decodedCode = code.replace(...).replace(...)...
Decode ==
  /\ dec.state = "input"
  /\ dec' = [dec EXCEPT !.state = "decoded", !.decoded = DecodeEntities(dec.payload)]
  /\ UNCHANGED <<rootExists, disk, pc, stack, cur, engine, exitCode, run, visits,
                 listed, writes, diskStart, rootAtStart, fault, failed,
                 entries, console, tally,
                 css>>

NextDecode == Decode

SpecDecode == InitDecode /\ [][NextDecode]_vars

(***************************************************************************)
(* The CSS build script                                                    *)
(***************************************************************************)
inputFile  == "themes/sbahri/assets/scss/main.scss"
outputDir  == "themes/sbahri/assets/css"
outputFile == "themes/sbahri/assets/css/main.css"

\* what main.scss may hold: 0 stands for a source sass cannot compile (or no
\* file at all), k > 0 for a source that compiles to stylesheet k
Sources == 0..MaxSheets

\* what main.css may hold: 0 stands for no file, k > 0 for stylesheet k
Sheets == 0..MaxSheets

\* compile(inputFile, { style: "compressed", sourceMap: false }).css
Compile(source) == source

InitCss ==
  /\ rootExists = FALSE
  /\ disk = EmptyDisk
  /\ pc = "css"
  /\ stack = <<>>
  /\ cur = NoFile
  /\ engine = <<>>
  /\ exitCode = -1
  /\ run = 1
  /\ visits = [f \in Files |-> 0]
  /\ listed = [d \in Dirs |-> 0]
  /\ writes = [f \in Files |-> 0]
  /\ diskStart = disk
  /\ rootAtStart = rootExists
  /\ fault = "none"
  /\ failed = {}
  /\ entries = {}
  /\ console = <<>>
  /\ tally = NoTally
  /\ dec = NoDecode
  /\ \E source \in Sources, dirExists \in BOOLEAN, file \in Sheets :
       \* without the directory there is no main.css in it
       /\ ~dirExists => file = 0
       /\ css = [pc |-> "start", source |-> source, dirExists |-> dirExists,
                 dirAtStart |-> dirExists, file |-> file, fileAtStart |-> file,
                 result |-> 0, mkdirs |-> 0, writes |-> 0, console |-> <<>>,
                 exitCode |-> -1, fault |-> "none"]

CssFrame ==
  UNCHANGED <<rootExists, disk, pc, stack, cur, engine, exitCode, run, visits,
              listed, writes, diskStart, rootAtStart, fault, failed, dec,
              entries, console, tally>>

\* console.log("Building CSS...")
CssBanner ==
  /\ css.pc = "start"
  /\ css' = [css EXCEPT !.pc = "exists",
                        !.console = Append(@, Line("log", "Building CSS...", ""))]
  /\ CssFrame

\* an existence test that takes the directory to be there
CssExistsSync_AlwaysThere ==
  /\ css.pc = "exists"
  /\ css' = [css EXCEPT !.pc = "compile"]
  /\ CssFrame

\* if (!existsSync(outputDir))
CssExistsSync ==
  /\ css.pc = "exists"
  /\ css' = [css EXCEPT !.pc = IF css.dirExists THEN "compile" ELSE "mkdir"]
  /\ CssFrame

\* the catch block: console.error("Error building CSS:", error), process.exit(1)
CssExit1(call) ==
  css' = [css EXCEPT !.pc = "exit1",
                     !.exitCode = 1,
                     !.fault = call,
                     !.console = Append(@, Line("error", "Error building CSS:", ""))]

\* mkdirSync(outputDir, { recursive: true })
CssMkdir ==
  /\ css.pc = "mkdir"
  /\ css' = [css EXCEPT !.pc = "compile", !.dirExists = TRUE, !.mkdirs = @ + 1]
  /\ CssFrame

\* mkdirSync throws
CssMkdirThrows ==
  /\ css.pc = "mkdir"
  /\ CssExit1("mkdir")
  /\ CssFrame

\* compile returns the stylesheet of a source it can compile
CssCompile ==
  /\ css.pc = "compile"
  /\ css.source # 0
  /\ css' = [css EXCEPT !.pc = "write", !.result = Compile(css.source)]
  /\ CssFrame

\* compile throws: the source is missing or is not valid SCSS
CssCompileThrows ==
  /\ css.pc = "compile"
  /\ css.source = 0
  /\ CssExit1("compile")
  /\ CssFrame

\* writeFileSync(outputFile, result.css)
CssWrite ==
  /\ css.pc = "write"
  /\ css.dirExists
  /\ css' = [css EXCEPT !.pc = "log", !.file = css.result, !.writes = @ + 1]
  /\ CssFrame

\* writeFileSync throws
CssWriteThrows ==
  /\ css.pc = "write"
  /\ CssExit1("write")
  /\ CssFrame

\* console.log of the success message; the script ends
CssSuccess ==
  /\ css.pc = "log"
  /\ css' = [css EXCEPT !.pc = "done",
                        !.exitCode = 0,
                        !.console = Append(@, Line("log", "CSS built successfully:", outputFile))]
  /\ CssFrame

NextCss ==
  \/ CssBanner
  \/ CssExistsSync
  \/ CssMkdir
  \/ CssMkdirThrows
  \/ CssCompile
  \/ CssCompileThrows
  \/ CssWrite
  \/ CssWriteThrows
  \/ CssSuccess

SpecCss == InitCss /\ [][NextCss]_vars

(***************************************************************************)
(* Properties                                                              *)
(***************************************************************************)
\* the last highlightFile call has returned normally
Returned == cur.status = "returned"

Blocks == 1..Len(cur.matches)

SomeHighlighted == \E i \in 1..Len(cur.outcome) : cur.outcome[i] = "ok"

\* the text that stands for block i in the document: what the replacement
\* put in for a highlighted block, the block itself otherwise
Standing(i) ==
  IF cur.outcome[i] = "ok" THEN cur.inserted[i] ELSE cur.matches[i].full

\* content with every block replaced, at the block's own position, by the
\* text standing for it, from block k and position from on
RECURSIVE SplicedByPosition(_, _)
SplicedByPosition(k, from) ==
  IF k > Len(cur.matches)
  THEN Slice(cur.content, from, Len(cur.content))
  ELSE Slice(cur.content, from, cur.matches[k].index - 1)
         \o Standing(k)
         \o SplicedByPosition(k + 1, cur.matches[k].index + Len(cur.matches[k].full))

\* where block i starts in the final document when every replacement acts
\* at its own block
RECURSIVE Shift(_)
Shift(k) ==
  IF k = 0 THEN 0
  ELSE Shift(k - 1) + Len(Standing(k)) - Len(cur.matches[k].full)

OutPos(i) == cur.matches[i].index + Shift(i - 1)

\* the text of the final document in the range of block i
OutBlock(i) ==
  LET from == OutPos(i)
      to   == OutPos(i) + Len(cur.matches[i].full) - 1
  IN  IF from >= 1 /\ to <= Len(cur.newContent)
      THEN SubSeq(cur.newContent, from, to)
      ELSE <<>>

\* C1: a file processed by highlightFile is written exactly when one of its
\* blocks was highlighted; then the file holds the modified document, and
\* otherwise its content is what it was when the run started
C1_WrittenIffHighlighted ==
  Returned =>
    /\ writes[cur.filePath] = (IF SomeHighlighted THEN 1 ELSE 0)
    /\ SomeHighlighted => disk[cur.filePath] = cur.newContent
    /\ ~SomeHighlighted => disk[cur.filePath] = diskStart[cur.filePath]

C1_Witness ==
  /\ Returned
  /\ SomeHighlighted
  /\ writes[cur.filePath] = 1
  /\ disk[cur.filePath] # diskStart[cur.filePath]

\* C2: a block with an unsupported language stands unchanged in the
\* document highlightFile produces
C2_UnsupportedBlockUnchanged ==
  Returned =>
    \A i \in Blocks :
      cur.outcome[i] = "skip" => OutBlock(i) = cur.matches[i].full

\* C3: each replacement removes the block at its own match position and
\* nothing else; everything outside the highlighted blocks passes through
C3_ReplacesAtMatchPosition ==
  Returned => cur.newContent = SplicedByPosition(1, 1)

\* C4: the text put in place of a highlighted block is the fragment the
\* engine returned, character for character
C4_FragmentVerbatim ==
  Returned =>
    \A i \in Blocks :
      cur.outcome[i] = "ok" => cur.inserted[i] = cur.fragment[i]

\* C5: a block whose engine call failed stands unchanged in the document
\* highlightFile produces
C5_FailedBlockUnchanged ==
  Returned =>
    \A i \in Blocks :
      cur.outcome[i] = "fail" => OutBlock(i) = cur.matches[i].full

\* a step in which an engine call fails
EngineFailureStep ==
  /\ Len(cur'.outcome) = Len(cur.outcome) + 1
  /\ cur'.outcome[Len(cur'.outcome)] = "fail"

\* C6: an engine failure never aborts the run: the loop moves on to the
\* next block, every block of the file is processed, the process exits 1
\* only when a file system call threw, and a run without such a throw
\* completes with exit code 0 after visiting every .html file
C6_EngineFailureNeverAborts ==
  /\ [](/\ pc = "exit1" => fault # "none"
        /\ Returned => Len(cur.outcome) = Len(cur.matches)
        /\ pc = "complete" =>
             /\ exitCode = 0
             /\ \A f \in HtmlFiles \cap entries : visits[f] = 1)
  /\ [][EngineFailureStep =>
          /\ pc' = "highlight"
          /\ cur'.i = cur.i + 1
          /\ cur'.filePath = cur.filePath
          /\ stack' = stack
          /\ exitCode' = exitCode]_vars

\* the run has completed although an engine call failed in a file processed
\* before the last one, whose blocks were then still processed
C6_Witness ==
  /\ pc = "complete"
  /\ exitCode = 0
  /\ \E f \in failed : f # cur.filePath
  /\ Returned
  /\ cur.outcome # <<>>

\* C7: when PUBLIC_DIR is missing at the start of the run, the run exits
\* with code 1 and nothing is created or written
C7_MissingRootFails ==
  ~rootAtStart =>
    /\ ~rootExists
    /\ pc \in {"main", "exit1"}
    /\ pc = "exit1" => exitCode = 1
    /\ disk = diskStart
    /\ \A f \in Files : writes[f] = 0 /\ visits[f] = 0
    /\ \A d \in Dirs : listed[d] = 0

C7_Witness ==
  /\ ~rootAtStart
  /\ pc = "exit1"
  /\ exitCode = 1
  /\ fault = "missing"

\* C8: a read or write error on one file does not abort the run
C8_FileErrorSkipsFile ==
  fault \in {"read", "write"} => pc # "exit1" /\ exitCode # 1

\* C9: highlightFile is invoked at most once per file, never for a file not
\* named *.html, every directory is listed at most once, and a completed
\* walk has visited every .html file and listed every directory, whatever
\* the order of the entries
C9_TraversalCompleteExact ==
  /\ \A f \in Files :
       /\ visits[f] <= 1
       /\ ~EndsWith(f[Len(f)], HtmlSuffix) => visits[f] = 0
  /\ \A d \in Dirs : listed[d] <= 1
  /\ pc = "complete" =>
       /\ \A f \in HtmlFiles \cap entries : visits[f] = 1
       /\ \A d \in Dirs : listed[d] = 1

C9_Witness ==
  /\ pc = "complete"
  /\ run = 1
  /\ entries = FullTree
  /\ \A f \in HtmlFiles : visits[f] = 1
  /\ visits[F_index_xml] = 0
  /\ listed[P_b_html] = 1

\* C10: a second run over the same tree changes no file
C10_Idempotent ==
  (run > 1 /\ pc = "complete") => disk = diskStart


Entities == <<E_lt, E_gt, E_amp, E_quot, E_apos>>
Named    == <<"<", ">", "&", "\"", "'">>

\* one pass from left to right: an entity that starts at the current
\* position gives the character it names, and what it gives is not read again
RECURSIVE SinglePass(_, _)
SinglePass(code, i) ==
  IF i > Len(code) THEN <<>>
  ELSE LET here == {e \in 1..Len(Entities) : StartsWithAt(code, i, Entities[e])}
       IN  IF here = {}
           THEN <<code[i]>> \o SinglePass(code, i + 1)
           ELSE LET e == CHOOSE e \in here : TRUE
                IN  <<Named[e]>> \o SinglePass(code, i + Len(Entities[e]))

Decoded == dec.state = "decoded"

\* C11: the decoded text is the result of one single-pass substitution of
\* the five entities, for every payload
C11_SinglePassDecoding ==
  Decoded => dec.decoded = SinglePass(dec.payload, 1)

\* an &amp; directly followed by the text that completes an entity
EscapedEntity(code) ==
  \E i \in 1..Len(code) :
    /\ StartsWithAt(code, i, E_amp)
    /\ \E e \in 1..Len(Entities) :
         StartsWithAt(code, i + Len(E_amp), Tail(Entities[e]))

\* C12: &lt;div class=&quot;x&quot;&gt; decodes to <div class="x">, &amp;lt;
\* decodes to &lt;, and in a payload without an &amp; next to the rest of an
\* entity every entity is replaced by the character it names
C12_EntityRoundTrip ==
  Decoded =>
    /\ dec.payload = PayloadDiv =>
         dec.decoded = <<"<", "d", "i", "v", " ", "c", "l", "a", "s", "s", "=",
                         "\"", "x", "\"", ">">>
    /\ dec.payload = E_amp \o R_lt => dec.decoded = E_lt
    /\ ~EscapedEntity(dec.payload) => dec.decoded = SinglePass(dec.payload, 1)

C12_Witness ==
  /\ Decoded
  /\ dec.payload = E_amp \o R_lt
  /\ dec.decoded = E_lt


RECURSIVE Total(_, _)
\* the sum of count[f] over the files f of S
Total(count, S) ==
  IF S = {} THEN 0
  ELSE LET f == CHOOSE f \in S : TRUE
       IN  count[f] + Total(count, S \ {f})

\* the summary line a run would print, with the counts of what happened
SummaryLine ==
  [stream |-> "log", msg |-> "Summary:", path |-> <<>>,
   scanned |-> Total(visits, Files), modified |-> Total(writes, Files),
   highlighted |-> tally.highlighted, skipped |-> tally.skipped,
   failed |-> tally.failed]

\* C13: a completed run has printed a summary whose counts are the files
\* scanned and modified and the blocks highlighted, skipped and failed, and
\* the blocks matched are the highlighted, skipped and failed ones together
C13_SummaryMatches ==
  pc = "complete" =>
    /\ \E k \in 1..Len(console) : console[k] = SummaryLine
    /\ tally.matched = tally.highlighted + tally.skipped + tally.failed


\* C14: a run ends with exit code 0 exactly when no file system call threw,
\* also when the tree has no .html file or no block to highlight, and with
\* exit code 1 when the root is missing; until it ends it has a walkDir call
\* or a highlightFile call to go on with
C14_ExitCode ==
  /\ pc = "complete" => exitCode = 0 /\ fault = "none" /\ rootAtStart
  /\ pc = "exit1" => exitCode = 1 /\ fault # "none"
  /\ (~rootAtStart /\ pc # "main") => pc = "exit1" /\ exitCode = 1
  /\ pc \in {"main", "walk", "highlight"} => exitCode = -1 /\ fault = "none"
  /\ pc = "walk" => stack # <<>>
  /\ pc = "highlight" =>
       /\ stack # <<>>
       /\ cur.status = "running"
       /\ cur.i <= Len(cur.matches) + 1

\* a run over a tree without .html files has ended with exit code 0
C14_Witness ==
  /\ pc = "complete"
  /\ exitCode = 0
  /\ entries = BareTree
  /\ tally.matched = 0


\* the codeToHtml call the script owes block i of the current file: none
\* for a language outside LANGUAGES, else the decoded payload, the block's
\* language and the theme
CallFor(i) ==
  IF Includes(LANGUAGES, cur.matches[i].lang)
  THEN [code  |-> DecodeEntities(cur.matches[i].code),
        lang  |-> cur.matches[i].lang,
        theme |-> "github-dark"]
  ELSE NoCall

\* C15: codeToHtml is called only for blocks whose language is in
\* LANGUAGES, and then with the decoded payload of the block, the block's
\* own language and the theme github-dark
C15_EngineCalls ==
  /\ \A i \in 1..Len(cur.call) : cur.call[i] = CallFor(i)
  /\ \A key \in DOMAIN engine : Includes(LANGUAGES, key[1])

\* a python block was passed decoded next to a block that was passed over
C15_Witness ==
  /\ Returned
  /\ \E i, j \in 1..Len(cur.call) :
       /\ cur.call[i].lang = L_python
       /\ cur.call[i].code = <<"a", "<", "b">>
       /\ cur.matches[j].lang = L_brainfuck
       /\ cur.call[j] = NoCall


\* block i was replaced: the engine answered and the block's text was found
Replaced(i) == cur.outcome[i] = "ok" /\ cur.pos[i] > 0

\* where the text inserted for block j starts in newContent just before
\* block t is processed (j < t)
RECURSIVE StartAt(_, _)
StartAt(j, t) ==
  IF t = j + 1 THEN cur.pos[j]
  ELSE LET before == StartAt(j, t - 1)
       IN  IF Replaced(t - 1) /\ cur.pos[t - 1] < before
           THEN before + Len(cur.inserted[t - 1]) - Len(cur.matches[t - 1].full)
           ELSE before

\* the replacement for block i acted on text inserted for the earlier block j
HitsInserted(i, j) ==
  LET a == StartAt(j, i)
      b == a + Len(cur.inserted[j]) - 1
      p == cur.pos[i]
      q == p + Len(cur.matches[i].full) - 1
  IN  p <= b /\ a <= q

\* C16: the matches are those of the document as read from disk, they do
\* not overlap, and no replacement acts on text that an earlier replacement
\* inserted
C16_MatchesComputedOnce ==
  cur.status # "none" =>
    /\ cur.content = diskStart[cur.filePath]
    /\ cur.matches = MatchAll(cur.content)
    /\ \A i, j \in Blocks :
         i < j => cur.matches[i].index + Len(cur.matches[i].full) <= cur.matches[j].index
    /\ \A i, j \in 1..Len(cur.pos) :
         (j < i /\ Replaced(i) /\ Replaced(j)) => ~HitsInserted(i, j)

\* the engine's answer for block k of the current file, a failure while it
\* has not been asked
AnswerFor(k) ==
  LET key == <<cur.matches[k].lang, DecodeEntities(cur.matches[k].code)>>
  IN  IF key \in DOMAIN engine THEN engine[key] ELSE EngineFailure

\* the document after the blocks 1..k were treated in that order, as a
\* function of the text read and of the engine alone
RECURSIVE Replay(_)
Replay(k) ==
  IF k = 0 THEN cur.content
  ELSE IF Skipped(cur.matches[k].lang) \/ ~AnswerFor(k).ok
       THEN Replay(k - 1)
       ELSE StringReplace(Replay(k - 1), cur.matches[k].full, AnswerFor(k).html)

\* one step of the loop of highlightFile: the block at cur.i is settled, by
\* at most one call of the engine for that very block, the document changes
\* by the replacement for that block only, and the next step is about the
\* next block
OneBlockStep ==
  LET m   == cur.matches[cur.i]
      key == <<m.lang, DecodeEntities(m.code)>>
  IN  /\ cur.i <= Len(cur.matches)
      /\ cur'.i = cur.i + 1
      /\ Len(cur'.outcome) = Len(cur.outcome) + 1
      /\ SubSeq(cur'.outcome, 1, Len(cur.outcome)) = cur.outcome
      /\ cur'.matches = cur.matches
      /\ cur'.content = cur.content
      /\ cur'.filePath = cur.filePath
      /\ engine' # engine =>
           /\ DOMAIN engine' = DOMAIN engine \cup {key}
           /\ DOMAIN engine' # DOMAIN engine
           /\ cur'.outcome[cur.i] # "skip"
      /\ cur'.newContent =
           IF cur'.outcome[cur.i] = "ok"
           THEN StringReplace(cur.newContent, m.full, engine'[key].html)
           ELSE cur.newContent

\* C17: within one file the blocks are settled one at a time, left to right
\* by match position, each supported block by exactly one engine call and
\* each unsupported one by none, the engine never changes an answer, and
\* the document at the end of the loop is the replay of the text read under
\* the engine's answers, whatever else the run has done
C17_OneBlockAtATime ==
  /\ [](cur.status \in {"running", "returned"} =>
          /\ Len(cur.outcome) = cur.i - 1
          /\ cur.i <= Len(cur.matches) + 1
          /\ \A i, j \in Blocks : i < j => cur.matches[i].index < cur.matches[j].index
          /\ \A k \in 1..Len(cur.outcome) :
               /\ cur.outcome[k] = "skip" <=> Skipped(cur.matches[k].lang)
               /\ cur.outcome[k] = "ok" => AnswerFor(k).ok
               /\ cur.outcome[k] = "fail" => AnswerFor(k) = EngineFailure
               /\ cur.outcome[k] = "fail" =>
                    <<cur.matches[k].lang, DecodeEntities(cur.matches[k].code)>> \in DOMAIN engine
          /\ (pc = "highlight" /\ cur.i = Len(cur.matches) + 1) =>
               cur.newContent = Replay(Len(cur.matches)))
  /\ [][/\ \A key \in DOMAIN engine : key \in DOMAIN engine' /\ engine'[key] = engine[key]
        /\ (pc = "highlight" /\ pc' = "highlight" /\ cur' # cur) => OneBlockStep
        /\ (pc # "highlight" \/ cur.i > Len(cur.matches)) => engine' = engine]_vars

\* a file with two supported blocks of different languages, both highlighted
C17_Witness ==
  /\ Returned
  /\ cur.outcome = <<"ok", "ok">>
  /\ cur.matches[1].lang # cur.matches[2].lang
  /\ disk[cur.filePath] = cur.newContent
  /\ cur.newContent # cur.content

\* a step of a run that writes: disk or the count of writes changes
WriteStep == run' = run /\ (disk' # disk \/ writes' # writes)

\* C18: in one run each file is read at most once and written at most once,
\* never before it was read; a write is the last step of highlightFile, made
\* once every match of the file is settled, it stores the document built in
\* memory from the single read and touches no other file
C18_ReadOnceWrittenOnce ==
  /\ [](/\ \A f \in Files : visits[f] <= 1 /\ writes[f] <= visits[f]
        /\ cur.status # "none" =>
             /\ visits[cur.filePath] = 1
             /\ cur.content = diskStart[cur.filePath]
        /\ cur.status = "running" => writes[cur.filePath] = 0)
  /\ [][WriteStep =>
          /\ pc = "highlight"
          /\ cur.status = "running"
          /\ cur.i = Len(cur.matches) + 1
          /\ Len(cur.outcome) = Len(cur.matches)
          /\ cur'.status = "returned"
          /\ writes' = [writes EXCEPT ![cur.filePath] = 1]
          /\ disk' = [disk EXCEPT ![cur.filePath] = cur.newContent]
          /\ visits' = visits]_vars

\* a file of two blocks, the first highlighted, read once and written once
C18_Witness ==
  /\ Returned
  /\ Len(cur.matches) = 2
  /\ cur.outcome[1] = "ok"
  /\ visits[cur.filePath] = 1
  /\ writes[cur.filePath] = 1
  /\ disk[cur.filePath] # diskStart[cur.filePath]

\* the name of a file ends in ".html"
IsHtml(f) == EndsWith(f[Len(f)], HtmlSuffix)

\* C19: the only path a step writes is the path of the file highlightFile is
\* processing, an existing file whose name ends in .html; files of other
\* names keep their content, and no step creates, deletes or renames an
\* entry of the tree, PUBLIC_DIR included
C19_WritesConfined ==
  /\ [](\A f \in Files :
          (~IsHtml(f) \/ f \notin entries) => writes[f] = 0 /\ disk[f] = diskStart[f])
  /\ [][/\ entries' = entries
        /\ rootExists' = rootExists
        /\ \A f \in Files :
             (disk'[f] # disk[f] \/ (run' = run /\ writes'[f] # writes[f])) =>
               /\ pc = "highlight"
               /\ f = cur.filePath
               /\ f \in entries
               /\ IsHtml(f)]_vars

\* the run completed and rewrote an .html file next to index.xml, which
\* holds a supported block and was left alone
C19_Witness ==
  /\ pc = "complete"
  /\ F_index_xml \in entries
  /\ MatchAll(disk[F_index_xml]) # <<>>
  /\ writes[F_index_xml] = 0
  /\ \E f \in HtmlFiles : writes[f] = 1 /\ disk[f] # diskStart[f]

\* the document highlightFile leaves for a file that held content, computed
\* from content and the engine's answers alone: the matches ms of content,
\* treated in order up to the k-th
RECURSIVE FinalFrom(_, _, _)
FinalFrom(content, ms, k) ==
  IF k = 0 THEN content
  ELSE LET before == FinalFrom(content, ms, k - 1)
           key    == <<ms[k].lang, DecodeEntities(ms[k].code)>>
       IN  IF Skipped(ms[k].lang) \/ key \notin DOMAIN engine
           THEN before
           ELSE IF engine[key].ok
                THEN StringReplace(before, ms[k].full, engine[key].html)
                ELSE before

FinalOf(content) == FinalFrom(content, MatchAll(content), Len(MatchAll(content)))

\* C20: without a file system error, what a run leaves in a file is a
\* function of what the file held at the start of the run (and of the
\* engine), whatever the other files hold and in whatever order the entries
\* are listed: a file not read yet is as it was, a completed run leaves
\* FinalOf of its own initial content in every .html file of the tree and
\* every other file as it was, and files with equal initial content end
\* with equal content
C20_NoCrossFileState ==
  fault = "none" =>
    /\ \A f \in Files : visits[f] = 0 => disk[f] = diskStart[f]
    /\ pc = "complete" =>
         /\ \A f \in Files :
              disk[f] = IF f \in HtmlFiles \cap entries
                        THEN FinalOf(diskStart[f])
                        ELSE diskStart[f]
         /\ \A f, g \in HtmlFiles \cap entries :
              diskStart[f] = diskStart[g] => disk[f] = disk[g]

\* a completed run that rewrote two files, one holding a block the other
\* does not hold
C20_Witness ==
  /\ pc = "complete"
  /\ fault = "none"
  /\ \E f, g \in HtmlFiles :
       /\ f # g
       /\ writes[f] = 1
       /\ writes[g] = 1
       /\ diskStart[f] # diskStart[g]
       /\ disk[f] = FinalOf(diskStart[f])

\* a call of highlightFile has read its file and has not returned or thrown
InProcess == cur.status = "running"

\* a step of a run that reads a file
ReadStep == run' = run /\ visits' # visits

\* C21: processing is sequential: a file is in process exactly while the
\* walk waits in highlightFile, the walk does not move and no other file is
\* read while a file is in process, a step asks the engine about one block
\* at most, and a file is read only when no file is in process, so after the
\* write of the file before it
C21_Sequential ==
  /\ [](/\ InProcess <=> pc = "highlight"
        /\ InProcess => /\ stack # <<>>
                        /\ visits[cur.filePath] = 1
                        /\ writes[cur.filePath] = 0)
  /\ [][/\ ReadStep =>
             /\ ~InProcess
             /\ pc = "walk"
             /\ \E f \in Files : visits' = [visits EXCEPT ![f] = @ + 1]
             /\ disk' = disk
             /\ writes' = writes
        /\ InProcess =>
             /\ stack' = stack
             /\ visits' = visits
             /\ listed' = listed
             /\ cur'.filePath = cur.filePath
             /\ \A f \in Files : f # cur.filePath => disk'[f] = disk[f]
        /\ engine' # engine =>
             /\ InProcess
             /\ Cardinality(DOMAIN engine' \ DOMAIN engine) = 1
             /\ Len(cur'.call) = Len(cur.call) + 1]_vars

\* a second file is in process, its block highlighted and its write still
\* to come, after the first file was written
C21_Witness ==
  /\ InProcess
  /\ cur.i = 2
  /\ cur.outcome = <<"ok">>
  /\ disk[cur.filePath] = cur.content
  /\ \E g \in HtmlFiles : g # cur.filePath /\ visits[g] = 1 /\ writes[g] = 1

(***************************************************************************)
(* The run under a scheduler that lets it go on                            *)
(***************************************************************************)
\* a step the script takes when no call throws, and the throw of
\* readdirSync for a missing PUBLIC_DIR, which has no other outcome
WalkStep ==
  \/ Main
  \/ MainReaddirThrows /\ ~rootExists
  \/ WalkRecurse
  \/ WalkNext
  \/ WalkReturn
  \/ HighlightSkip
  \/ HighlightReturn

\* highlightFile is due: the current entry is a file named *.html
ReadDue == InLoop /\ EntryBranch(IsDirectory(TopPath), TopFile) = "highlightFile"

\* weak fairness of HighlightFile, written with its enabling condition
ReadFair == []<>(~ReadDue) \/ []<><<HighlightFile>>_vars

\* codeToHtml is due: the current block is in a supported language
EngineDue == InBlocks /\ ~Skipped(Match.lang)

\* every awaited call of the engine returns or throws: weak fairness of
\* HighlightBlock \/ HighlightError, written with its enabling condition
EngineFair == []<>(~EngineDue) \/ []<><<HighlightBlock \/ HighlightError>>_vars

\* the script runs on while it can: its steps are synchronous but for the
\* awaited engine calls; whether an fs call throws is left open
\* the trees of Init whose documents hold at most MaxLiveSegs segments
LiveDisks ==
  UNION { UNION { { [f \in Files |->
                      IF f = F_index_xml THEN SegPython ELSE Concat(ids, owner, f)]
                    : owner \in [1..n -> HtmlFiles] }
                  : ids \in [1..n -> 1..Len(Segments)] }
          : n \in 0..MaxLiveSegs }

InitLive == Init /\ (entries = FullTree => disk \in LiveDisks)

SpecLive == InitLive /\ [][Next]_vars /\ WF_vars(WalkStep) /\ ReadFair /\ EngineFair

Running == pc \in {"main", "walk", "highlight"}
Halted  == pc \in {"complete", "exit1"}

\* the number of directories on the path from PUBLIC_DIR to the deepest
\* directory of the tree
TreeDepth ==
  LET lens == {Len(d) : d \in (Dirs \cap entries) \cup {PUBLIC_DIR}}
  IN  CHOOSE n \in lens : \A m \in lens : m <= n

\* C22: the calls of walkDir in progress are nested as the directories are,
\* so there are never more of them than the tree is deep, and a run that
\* has started comes to its end: the completion message or exit code 1
C22_Terminates ==
  /\ [](/\ Len(stack) <= TreeDepth
        /\ \A k \in 1..Len(stack) :
             /\ Len(stack[k].dir) = k
             /\ k > 1 => SubSeq(stack[k].dir, 1, k - 1) = stack[k - 1].dir
        /\ Halted => \/ pc = "exit1" /\ exitCode = 1
                     \/ /\ pc = "complete"
                        /\ console # <<>>
                        /\ console[Len(console)].msg = "Code highlighting complete!")
  /\ (Running ~> Halted)

\* walkDir is three calls deep, in the deepest directory of the tree
C22_Witness ==
  /\ pc = "walk"
  /\ Len(stack) = 3
  /\ Len(stack) = TreeDepth
  /\ stack[3].dir = P_b_html

CompletionMessage == "Code highlighting complete!"

\* the completion message is on the console
CompletionPrinted == \E k \in 1..Len(console) : console[k].msg = CompletionMessage

\* the step in which an exception reaches the catch block of main
FaultStep == pc # "exit1" /\ pc' = "exit1"

\* C23: an exception of a directory listing, stat, read or write ends the
\* run at once with exit code 1 and the error line, without the completion
\* message; the step changes no file, no step follows it, so nothing is
\* read, written or rolled back afterwards and the files written before
\* keep what highlightFile left in them; the completion message is printed
\* only when every directory was listed and every .html file processed
C23_ErrorStopsRun ==
  /\ [](/\ fault # "none" <=> pc = "exit1"
        /\ pc = "exit1" =>
             /\ exitCode = 1
             /\ fault \in {"missing", "readdir", "stat", "read", "write"}
             /\ ~CompletionPrinted
             /\ console[Len(console)].stream = "error"
             /\ \A f \in Files :
                  disk[f] = IF writes[f] = 1 THEN FinalOf(diskStart[f]) ELSE diskStart[f]
        /\ CompletionPrinted =>
             /\ pc = "complete"
             /\ stack = <<>>
             /\ ~InProcess
             /\ \A d \in Dirs \cap (entries \cup {PUBLIC_DIR}) : listed[d] = 1
             /\ \A f \in HtmlFiles \cap entries : visits[f] = 1)
  /\ [][/\ FaultStep =>
             /\ disk' = disk
             /\ writes' = writes
             /\ stack' = stack
             /\ fault' # "none"
        /\ pc = "exit1" => UNCHANGED vars]_vars

\* a write failed after another file had been rewritten and before the
\* failing file, which keeps what it held, could be
C23_Witness ==
  /\ pc = "exit1"
  /\ fault = "write"
  /\ cur.status = "threw"
  /\ cur.modified
  /\ disk[cur.filePath] = diskStart[cur.filePath]
  /\ \E f \in HtmlFiles : writes[f] = 1 /\ disk[f] # diskStart[f]

\* the success message is on the console of the CSS build
CssSuccessPrinted ==
  \E k \in 1..Len(css.console) : css.console[k].msg = "CSS built successfully:"

\* C24: the CSS build creates the output directory when it is absent, and
\* only then, before it compiles; it writes main.css once, with the result
\* of a compilation that succeeded, and leaves it alone otherwise; it
\* prints the success message only after the write; an error of mkdirSync,
\* compile or writeFileSync ends it with exit code 1 and no success message
C24_CssBuild ==
  css.pc # "off" =>
    /\ css.pc \in {"compile", "write", "log", "done"} => css.dirExists
    /\ css.mkdirs = IF ~css.dirAtStart /\ css.dirExists THEN 1 ELSE 0
    /\ css.writes <= 1
    /\ css.writes = 1 =>
         /\ css.source # 0
         /\ css.result = Compile(css.source)
         /\ css.file = css.result
         /\ css.pc \in {"log", "done"}
    /\ css.writes = 0 => css.file = css.fileAtStart
    /\ CssSuccessPrinted <=> css.pc = "done"
    /\ css.pc = "done" => css.writes = 1 /\ css.exitCode = 0 /\ css.fault = "none"
    /\ css.fault # "none" <=> css.pc = "exit1"
    /\ css.pc = "exit1" =>
         /\ css.exitCode = 1
         /\ css.fault \in {"mkdir", "compile", "write"}
         /\ css.console[Len(css.console)].stream = "error"
    /\ css.pc \notin {"done", "exit1"} => css.exitCode = -1

\* the build made the directory and replaced nothing by a stylesheet
C24_Witness ==
  /\ css.pc = "done"
  /\ ~css.dirAtStart
  /\ css.mkdirs = 1
  /\ css.fileAtStart = 0
  /\ css.file = Compile(css.source)
  /\ css.file # 0

====
